---- MODULE Spec2Model ----
(***************************************************************************)
(* Model of compress.py: the batch driver process_images, the worker       *)
(* threads of its ThreadPoolExecutor each running process_image on one     *)
(* file, the size-fit loop of process_image, and the part of the file      *)
(* system and of the console the two functions read and write.             *)
(*                                                                         *)
(* Path.glob is modelled with the POSIX pathlib flavour (the script is     *)
(* written for macOS: `touch -r`, st_birthtime), whose pattern matching    *)
(* is case-sensitive.  The codecs (pillow_heif, PIL) and the operating     *)
(* system are the environment: each of their calls returns one of its      *)
(* possible results, chosen nondeterministically.  Of the console the      *)
(* model keeps, per call, the kinds of line printed among Processing,      *)
(* Warning, Success and Error, and the lines of process_images in order;   *)
(* the diagnostic lines (HEIF fallback, metadata, enhancement, "Save       *)
(* attempt failed") are not recorded.  The statements of process_image     *)
(* that touch only its locals are grouped with the next statement that     *)
(* reads or writes the file system or ends the call.                       *)
(***************************************************************************)
EXTENDS Integers, Sequences, FiniteSets, TLC

(* ---------------------------- program constants ------------------------ *)
MAX_SIZE_KB == 1024
StartQuality == 95
FloorQuality == 30
QualityStep == 5
OUTPUT_DIR == "./new"

\* MAX_SIZE_KB * 1024, the right-hand side of the size test
Ceiling == MAX_SIZE_KB * 1024

(* ------------------------------- bounds -------------------------------- *)
\* the largest number of directory entries of INPUT_DIR
MaxFiles == 2

\* File names are a stem and an extension; an extension is the tuple of its
\* characters, so that its case can be folded character by character.
HEIC_UPPER == <<"H", "E", "I", "C">>
heic_lower == <<"h", "e", "i", "c">>
Heic_mixed == <<"H", "e", "i", "c">>
png_lower == <<"p", "n", "g">>

\* the directory entries INPUT_DIR may hold
EntryUniverse ==
    { [stem |-> "a", ext |-> HEIC_UPPER],
      [stem |-> "a", ext |-> heic_lower],
      [stem |-> "b", ext |-> heic_lower],
      [stem |-> "b", ext |-> Heic_mixed],
      [stem |-> "c", ext |-> png_lower] }

\* the byte lengths buffer.tell() may report after a save that did not raise
EncSizes == { Ceiling, Ceiling + 1 }

\* str.lower() on one character, on the characters of the extensions above
LowerChar(c) ==
    CASE c = "H" -> "h"
      [] c = "E" -> "e"
      [] c = "I" -> "i"
      [] c = "C" -> "c"
      [] OTHER -> c

Lower(s) == [k \in DOMAIN s |-> LowerChar(s[k])]

(* ------------------------------- state --------------------------------- *)
VARIABLES
    dir,           \* the entries of INPUT_DIR (meaningful when inputExists)
    inputExists,   \* os.path.exists(INPUT_DIR)
    outDirExists,  \* OUTPUT_DIR exists
    madeOutDir,    \* history: os.makedirs created OUTPUT_DIR
    out,           \* output path -> -1 (no file), 0 (empty file), n (n bytes)
    dpc,           \* position of process_images
    files,         \* the list `files` of process_images
    submitted,     \* number of tasks handed to the executor so far
    log,           \* lines process_images printed, in order
    task,          \* per submitted file: the locals of its process_image call
    xf,            \* one image going through resize_image and enhance_image
    pr             \* print_lock and the threads calling safe_print

vars == <<dir, inputExists, outDirExists, madeOutDir, out, dpc, files,
          submitted, log, task, xf, pr>>

\* the variables of the batch: the file system, process_images and its tasks
batch == <<dir, inputExists, outDirExists, madeOutDir, out, dpc, files,
           submitted, log, task>>

\* no image is in the transform stage on its own
XfOff == [stage |-> "off"]

\* no thread is calling safe_print on its own
PrOff == [stage |-> "off"]

\* Path(OUTPUT_DIR) / f"{file.stem}.jpg"
OutputPathConst(file) == <<OUTPUT_DIR, "out", "jpg">>

OutputPath(file) == <<OUTPUT_DIR, file.stem, "jpg">>

OutPaths == { OutputPath(f) : f \in EntryUniverse }

\* fnmatch of an entry against "*.<pattern>" with the POSIX flavour
GlobMatch(file, pattern) == file.ext = pattern

\* A fixed enumeration order of a set of entries (the order os.scandir
\* returns them in; the tasks run concurrently whatever the order)
RECURSIVE SeqOfSet(_)
SeqOfSet(S) ==
    IF S = {} THEN <<>>
    ELSE LET x == CHOOSE y \in S : TRUE
         IN  <<x>> \o SeqOfSet(S \ {x})

\* list(Path(INPUT_DIR).glob(pattern))
Glob(pattern) == SeqOfSet({ f \in dir : GlobMatch(f, pattern) })

Tasks == 1 .. submitted

\* the locals of a process_image call that has not started
NewTask(file) ==
    [ file        |-> file,
      pc          |-> "queued",
      fault       |-> "none",      \* the exception raised before the loop
      output_path |-> <<>>,
      quality     |-> 0,
      tryQ        |-> 0,           \* quality of the latest image.save call
      tries       |-> 0,           \* number of image.save calls
      produced    |-> FALSE,       \* some image.save call returned
      failed      |-> FALSE,       \* some pass through the loop body raised
      wrote       |-> 0,           \* bytes this call wrote to output_path
      wroteQ      |-> 0,           \* quality of the bytes written
      touched     |-> FALSE,       \* touch -r ran on output_path
      lines       |-> {} ]         \* kinds of line this call printed

Outcome(t) ==
    IF "Success" \in t.lines THEN "Success"
    ELSE IF "Error" \in t.lines THEN "Failed"
    ELSE "none"

TypeOK ==
    /\ dir \subseteq EntryUniverse
    /\ inputExists \in BOOLEAN
    /\ outDirExists \in BOOLEAN
    /\ madeOutDir \in BOOLEAN
    /\ out \in [OutPaths -> {-1, 0} \cup EncSizes]
    /\ dpc \in {"makedirs", "checkdir", "glob", "found", "submit", "join",
                "returned", "done"}
    /\ submitted \in 0 .. Len(files)
    /\ Len(task) = submitted

(* ------------------------------- Init ---------------------------------- *)
Init ==
    /\ inputExists \in BOOLEAN
    /\ dir \in { d \in SUBSET EntryUniverse : Cardinality(d) <= MaxFiles }
    /\ (~inputExists => dir = {})
    /\ outDirExists \in BOOLEAN
    /\ madeOutDir = FALSE
    /\ out = [p \in OutPaths |-> -1]
    /\ dpc = "makedirs"
    /\ files = <<>>
    /\ submitted = 0
    /\ log = <<>>
    /\ task = <<>>
    /\ xf = XfOff
    /\ pr = PrOff

(* --------------------------- process_images ---------------------------- *)
\* os.makedirs(OUTPUT_DIR, exist_ok=True)
Makedirs ==
    /\ dpc = "makedirs"
    /\ outDirExists' = TRUE
    /\ madeOutDir' = ~outDirExists
    /\ dpc' = "checkdir"
    /\ UNCHANGED <<xf, pr, dir, inputExists, out, files, submitted, log, task>>

\* if not os.path.exists(INPUT_DIR): safe_print(...); return
CheckInputDir ==
    /\ dpc = "checkdir"
    /\ IF inputExists
       THEN /\ dpc' = "glob"
            /\ log' = log
       ELSE /\ dpc' = "returned"
            /\ log' = Append(log, [kind |-> "NoInputDir", args |-> <<>>])
    /\ UNCHANGED <<xf, pr, dir, inputExists, outDirExists, madeOutDir, out, files,
                   submitted, task>>

\* files = list(glob("*.HEIC")) + list(glob("*.heic")); if not files: return
GlobFiles ==
    /\ dpc = "glob"
    /\ files' = Glob(HEIC_UPPER) \o Glob(heic_lower)
    /\ IF files' = <<>>
       THEN /\ dpc' = "returned"
            /\ log' = Append(log, [kind |-> "NoFiles", args |-> <<>>])
       ELSE /\ dpc' = "found"
            /\ log' = log
    /\ UNCHANGED <<xf, pr, dir, inputExists, outDirExists, madeOutDir, out,
                   submitted, task>>

\* safe_print(f"Found {len(files)} HEIC files. Processing...")
ReportFound ==
    /\ dpc = "found"
    /\ log' = Append(log, [kind |-> "Found", args |-> <<Len(files)>>])
    /\ dpc' = "submit"
    /\ UNCHANGED <<xf, pr, dir, inputExists, outDirExists, madeOutDir, out, files,
                   submitted, task>>

\* executor.map(process_image, files): one submit per element of files; after
\* the last one the driver waits at the end of the `with` block
Submit ==
    /\ dpc = "submit"
    /\ submitted < Len(files)
    /\ submitted' = submitted + 1
    /\ task' = Append(task, NewTask(files[submitted + 1]))
    /\ dpc' = IF submitted + 1 < Len(files) THEN "submit" ELSE "join"
    /\ UNCHANGED <<xf, pr, dir, inputExists, outDirExists, madeOutDir, out, files, log>>

\* a future is finished when its call returned or raised
Finished(t) == t.pc \in {"done", "raised"}

\* the completion line without the join of the `with` block
CompleteNoJoin ==
    /\ dpc = "join"
    /\ log' = Append(log, [kind |-> "Complete", args |-> <<>>])
    /\ dpc' = "done"
    /\ UNCHANGED <<xf, pr, dir, inputExists, outDirExists, madeOutDir, out,
                   files, submitted, task>>

\* leaving the `with` block joins the workers; then "Processing complete."
Complete ==
    /\ dpc = "join"
    /\ \A i \in Tasks : Finished(task[i])
    /\ log' = Append(log, [kind |-> "Complete", args |-> <<>>])
    /\ dpc' = "done"
    /\ UNCHANGED <<xf, pr, dir, inputExists, outDirExists, madeOutDir, out, files,
                   submitted, task>>

(* ---------------------------- process_image ---------------------------- *)
Set(i, rec) == [task EXCEPT ![i] = rec]

\* process_image returns: its locals are gone; what it printed, what it
\* wrote and touched, and the exception it handled remain
Return(t) ==
    [NewTask(t.file) EXCEPT !.pc = "done", !.fault = t.fault,
                            !.produced = t.produced,
                            !.wrote = t.wrote, !.touched = t.touched,
                            !.lines = t.lines]

\* the size test of the loop: buffer.tell() <= MAX_SIZE_KB * 1024
FitsMiB(size) == size <= MAX_SIZE_KB * 1024 * 1024

Fits(size) == size <= Ceiling

\* the loop condition: while quality > 30
LoopGuardZero(q) == q > 0

LoopGuard(q) == q > FloorQuality

\* a call that starts only when the call submitted before it has returned
BeginSerial(i) ==
    /\ task[i].pc = "queued"
    /\ i > 1 => task[i - 1].pc = "done"
    /\ \E exists \in BOOLEAN :
          task' = Set(i, [task[i] EXCEPT
                     !.lines = @ \cup {"Processing"},
                     !.pc    = IF exists THEN "decode" ELSE "except",
                     !.fault = IF exists THEN "none" ELSE "missing"])
    /\ UNCHANGED <<xf, pr, dir, inputExists, outDirExists, madeOutDir, out,
                   dpc, files, submitted, log>>

\* safe_print("Processing: ..."); if not file.exists(): raise FileNotFoundError
Begin(i) ==
    /\ task[i].pc = "queued"
    /\ \E exists \in BOOLEAN :
          task' = Set(i, [task[i] EXCEPT
                     !.lines = @ \cup {"Processing"},
                     !.pc    = IF exists THEN "decode" ELSE "except",
                     !.fault = IF exists THEN "none" ELSE "missing"])
    /\ UNCHANGED <<xf, pr, dir, inputExists, outDirExists, madeOutDir, out, dpc,
                   files, submitted, log>>

\* pillow_heif.read_heif, on any exception Image.open; then convert('RGB').
\* "heif": the first path decodes; "pil": it raises and the fallback decodes;
\* "fail": both raise (or convert raises on the lazily opened file).
Decode(i) ==
    /\ task[i].pc = "decode"
    /\ \E r \in {"heif", "pil", "fail"} :
          task' = Set(i, [task[i] EXCEPT
                     !.pc    = IF r = "fail" THEN "except" ELSE "transform",
                     !.fault = IF r = "fail" THEN "decode" ELSE "none"])
    /\ UNCHANGED <<xf, pr, dir, inputExists, outDirExists, madeOutDir, out, dpc,
                   files, submitted, log>>

\* extract_metadata (catches its own errors), resize_image (may raise),
\* enhance_image (catches its own errors), output_path, quality = 95
Transform(i) ==
    /\ task[i].pc = "transform"
    /\ \E raises \in BOOLEAN :
          task' = Set(i,
             IF raises
             THEN [task[i] EXCEPT !.pc = "except", !.fault = "transform"]
             ELSE [task[i] EXCEPT
                     !.output_path = OutputPath(task[i].file),
                     !.quality     = StartQuality,
                     !.pc = IF LoopGuard(StartQuality) THEN "loop"
                            ELSE "afterloop"])
    /\ UNCHANGED <<xf, pr, dir, inputExists, outDirExists, madeOutDir, out, dpc,
                   files, submitted, log>>

\* the results of one pass through the loop body: image.save raises, or it
\* returns a buffer of some length; a fitting buffer is then written, and
\* open(output_path, 'wb') may raise as well.
SaveResults ==
    { [save |-> "raise", size |-> 0, open |-> "none"] }
    \cup { [save |-> "ok", size |-> s, open |-> o] :
              s \in EncSizes, o \in {"ok", "raise"} }

\* one pass through the body of `while quality > 30`
SaveAttempt(i) ==
    /\ task[i].pc = "loop"
    /\ \E r \in SaveResults :
       LET t == task[i]
           q == t.quality
           base == [t EXCEPT !.tryQ = q, !.tries = @ + 1]
           retry(rec) ==
               [rec EXCEPT !.quality = q - QualityStep,
                           !.pc = IF LoopGuard(q - QualityStep)
                                  THEN "loop" ELSE "afterloop"]
       IN
       CASE r.save = "raise" ->
              \* except: "Save attempt failed"; quality -= 5; continue
              /\ r.open = "none"
              /\ task' = Set(i, retry([base EXCEPT
                                  !.failed = TRUE]))
              /\ out' = out
         [] r.save = "ok" /\ Fits(r.size) /\ r.open = "ok" ->
              \* the file is written; break
              /\ task' = Set(i, [base EXCEPT !.produced = TRUE,
                                             !.wrote = r.size,
                                             !.wroteQ = q,
                                             !.pc = "afterloop"])
              /\ out' = [out EXCEPT ![t.output_path] = r.size]
         [] r.save = "ok" /\ Fits(r.size) /\ r.open = "raise" ->
              \* open raises inside the try: handled as a failed attempt
              /\ task' = Set(i, retry([base EXCEPT
                                  !.produced = TRUE,
                                  !.failed = TRUE]))
              /\ out' = out
         [] r.save = "ok" /\ ~Fits(r.size) ->
              \* too large: quality -= 5
              /\ r.open = "ok"
              /\ task' = Set(i, retry([base EXCEPT !.produced = TRUE]))
              /\ out' = out
    /\ UNCHANGED <<xf, pr, dir, inputExists, outDirExists, madeOutDir, dpc, files,
                   submitted, log>>

\* The statements after the loop, which touch no shared state but the
\* console and the output path of this call:
\*   if quality <= 30: safe_print("Warning: Could not compress ...")
\*   os.system("touch -r '<file>' '<output_path>'")   (exit status ignored;
\*       when touch succeeds and the output path has no file, it creates an
\*       empty one)
\*   safe_print("Success: ...") and return
Finish(i) ==
    /\ task[i].pc = "afterloop"
    /\ \E ok \in BOOLEAN :
          out' = IF ok /\ out[task[i].output_path] = -1
                 THEN [out EXCEPT ![task[i].output_path] = 0]
                 ELSE out
    /\ task' = Set(i, Return([task[i] EXCEPT
                  !.lines = (IF task[i].quality <= FloorQuality
                             THEN @ \cup {"Warning"} ELSE @)
                            \cup {"Success"},
                  !.touched = TRUE]))
    /\ UNCHANGED <<xf, pr, dir, inputExists, outDirExists, madeOutDir, dpc, files,
                   submitted, log>>

\* the handler without its `except Exception`: the exception leaves the call
ExceptEscapes(i) ==
    /\ task[i].pc = "except"
    /\ task' = Set(i, [task[i] EXCEPT !.pc = "raised"])
    /\ UNCHANGED <<xf, pr, dir, inputExists, outDirExists, madeOutDir, out, dpc,
                   files, submitted, log>>

\* the handler with the touch of line 167 run on the failure path as well
ExceptTouches(i) ==
    /\ task[i].pc = "except"
    /\ out' = IF out[OutputPath(task[i].file)] = -1
              THEN [out EXCEPT ![OutputPath(task[i].file)] = 0]
              ELSE out
    /\ task' = Set(i, Return([task[i] EXCEPT !.lines = @ \cup {"Error"},
                                             !.touched = TRUE]))
    /\ UNCHANGED <<xf, pr, dir, inputExists, outDirExists, madeOutDir, dpc,
                   files, submitted, log>>

\* except Exception: safe_print("Error processing ..."), the traceback; return
Except(i) ==
    /\ task[i].pc = "except"
    /\ task' = Set(i, Return([task[i] EXCEPT !.lines = @ \cup {"Error"}]))
    /\ UNCHANGED <<xf, pr, dir, inputExists, outDirExists, madeOutDir, out, dpc,
                   files, submitted, log>>

(* ------------------------------ behaviour ------------------------------ *)
Next ==
    \/ Makedirs
    \/ CheckInputDir
    \/ GlobFiles
    \/ ReportFound
    \/ Submit
    \/ Complete
    \/ \E i \in Tasks : Begin(i)
    \/ \E i \in Tasks : Decode(i)
    \/ \E i \in Tasks : Transform(i)
    \/ \E i \in Tasks : SaveAttempt(i)
    \/ \E i \in Tasks : Finish(i)
    \/ \E i \in Tasks : Except(i)

Spec == Init /\ [][Next]_vars

\* the steps of the worker thread running the call for files[i]
TaskStep(i) ==
    \/ Begin(i)
    \/ Decode(i)
    \/ Transform(i)
    \/ SaveAttempt(i)
    \/ Finish(i)
    \/ Except(i)

\* Every codec and file system call returns and the scheduler lets a thread
\* that can run take a step: some enabled step is eventually taken.
FairSpec == Spec /\ WF_vars(Next)

(* ------------------- resize_image and enhance_image -------------------- *)
\* One image goes through resize_image (applied a second time to its own
\* result as well) and through enhance_image.  An image is its size and
\* the adjustments applied to it, in order.
MAX_SIDE == 1900

\* the largest width or height of a decoded image
MaxDim == 4000

\* the widths and heights a decoded image may have
Dims == { 1, 2, 1200, MAX_SIDE - 1, MAX_SIDE, MAX_SIDE + 1, 3000, 3800, MaxDim }

Max(a, b) == IF a >= b THEN a ELSE b

Min(a, b) == IF a <= b THEN a ELSE b

NoResult == [kind |-> "none"]

\* the test of resize_image: max(width, height) > MAX_SIDE
NeedsResizeAlways(w, h) == TRUE

NeedsResize(w, h) == Max(w, h) > MAX_SIDE

\* ratio = min(MAX_SIDE / width, MAX_SIDE / height) is MAX_SIDE over the
\* larger of the two: the divisor of the ratio
RatioDivisorMin(w, h) == Min(w, h)

RatioDivisor(w, h) == Max(w, h)

\* int(x * ratio) with ratio = MAX_SIDE / m in double precision.  When
\* x * MAX_SIDE / m is no integer the rounding error (about 1e-13) is far
\* below its distance to the next integer (at least 1 / m), and int()
\* gives the floor; when it is an integer n, the product may come out as n
\* or just below n, and int() gives n or n - 1.
Scaled(x, m) ==
    LET e == x * MAX_SIDE
    IN  IF e % m = 0 THEN { e \div m - 1, e \div m } ELSE { e \div m }

\* the results resize_image(image) may have on an image of this size.  For a
\* target with a side below 1, Image.resize raises ValueError in the Pillow
\* versions that check the size and returns the empty image in the others.
ResizeImage(size) ==
    LET w == size[1]
        h == size[2]
    IN  IF NeedsResize(w, h)
        THEN LET m == RatioDivisor(w, h)
                 targets == { <<a, b>> : a \in Scaled(w, m), b \in Scaled(h, m) }
             IN  { [kind |-> "image", size |-> t] : t \in targets }
                 \cup { [kind |-> "raise"] :
                           t \in { u \in targets : u[1] < 1 \/ u[2] < 1 } }
        ELSE { [kind |-> "image", size |-> size] }

\* the adjustments of enhance_image, in the order of its statements
EnhanceSteps == <<"Sharpness", "Contrast", "Color">>

\* ImageEnhance.<step>(image).enhance(factor): a new image
Enhanced(image, step) == [image EXCEPT !.enh = Append(@, step)]

\* except Exception: ...; return image
EnhanceExceptInput(image, input) == input

EnhanceExcept(image, input) == image

InitTransform ==
    /\ inputExists = FALSE
    /\ dir = {}
    /\ outDirExists = FALSE
    /\ madeOutDir = FALSE
    /\ out = [p \in OutPaths |-> -1]
    /\ dpc = "makedirs"
    /\ files = <<>>
    /\ submitted = 0
    /\ log = <<>>
    /\ task = <<>>
    /\ pr = PrOff
    /\ xf \in { [stage  |-> "resize",
                 src    |-> <<w, h>>,   \* the size of the decoded image
                 once   |-> NoResult,   \* resize_image(src)
                 twice  |-> NoResult,   \* resize_image(resize_image(src))
                 input  |-> NoResult,   \* the argument of enhance_image
                 image  |-> NoResult,   \* the local `image` of enhance_image
                 step   |-> 0,          \* adjustments started in enhance_image
                 failAt |-> 0,          \* the adjustment that raised, if any
                 result |-> NoResult]   \* what enhance_image returned
               : w \in Dims, h \in Dims }

\* image = resize_image(image)
Resize ==
    /\ xf.stage = "resize"
    /\ \E r \in ResizeImage(xf.src) :
          xf' = [xf EXCEPT !.once = r,
                           !.stage = IF r.kind = "raise" THEN "raised"
                                     ELSE "resized"]
    /\ UNCHANGED <<batch, pr>>

\* resize_image applied to the image it returned
ResizeAgain ==
    /\ xf.stage = "resized"
    /\ xf.twice = NoResult
    /\ \E r \in ResizeImage(xf.once.size) : xf' = [xf EXCEPT !.twice = r]
    /\ UNCHANGED <<batch, pr>>

\* image = enhance_image(image): the call, with the resized image
EnhanceCall ==
    /\ xf.stage = "resized"
    /\ LET arg == [size |-> xf.once.size, enh |-> <<>>]
       IN  xf' = [xf EXCEPT !.input = arg, !.image = arg, !.stage = "enhance"]
    /\ UNCHANGED <<batch, pr>>

\* one adjustment of the try block: it returns and `image` is rebound (the
\* third one's result is returned), or it raises and the handler returns
EnhanceStep ==
    /\ xf.stage = "enhance"
    /\ \E raises \in BOOLEAN :
          LET k == xf.step + 1
              new == Enhanced(xf.image, EnhanceSteps[k])
          IN  xf' =
                IF raises
                THEN [xf EXCEPT !.step = k, !.failAt = k,
                                !.result = EnhanceExcept(xf.image, xf.input),
                                !.stage = "returned"]
                ELSE IF k = Len(EnhanceSteps)
                THEN [xf EXCEPT !.step = k, !.result = new,
                                !.stage = "returned"]
                ELSE [xf EXCEPT !.step = k, !.image = new]
    /\ UNCHANGED <<batch, pr>>

NextTransform ==
    \/ Resize
    \/ ResizeAgain
    \/ EnhanceCall
    \/ EnhanceStep

SpecTransform == InitTransform /\ [][NextTransform]_vars

(* ------------------------------ safe_print ----------------------------- *)
\* The threads of the program (process_images and the workers) call
\* safe_print, each a bounded number of times; print_lock is a
\* threading.Lock, held by at most one thread, 0 when free.
MaxThreads == 3

\* the number of safe_print calls of one thread
MaxPrints == 2

Threads == 1 .. MaxThreads

InitPrint ==
    /\ inputExists = FALSE
    /\ dir = {}
    /\ outDirExists = FALSE
    /\ madeOutDir = FALSE
    /\ out = [p \in OutPaths |-> -1]
    /\ dpc = "makedirs"
    /\ files = <<>>
    /\ submitted = 0
    /\ log = <<>>
    /\ task = <<>>
    /\ xf = XfOff
    /\ pr = [stage |-> "on",
             lock  |-> 0,
             thr   |-> [t \in Threads |->
                          [pc     |-> "idle",
                           left   |-> MaxPrints,   \* calls still to make
                           raised |-> FALSE]]]     \* print raised in this call

SetThread(t, rec) == [pr EXCEPT !.thr[t] = rec]

\* safe_print(...) is called: the thread reaches `with print_lock:`
SafePrintCall(t) ==
    /\ pr.thr[t].pc = "idle"
    /\ pr.thr[t].left > 0
    /\ pr' = SetThread(t, [pr.thr[t] EXCEPT !.pc = "acquire"])
    /\ UNCHANGED <<batch, xf>>

\* print_lock.__enter__(): acquire, blocking while another thread holds it
Acquire(t) ==
    /\ pr.thr[t].pc = "acquire"
    /\ pr.lock = 0
    /\ pr' = [SetThread(t, [pr.thr[t] EXCEPT !.pc = "print"])
                 EXCEPT !.lock = t]
    /\ UNCHANGED <<batch, xf>>

\* print(*args, **kwargs): it returns or it raises
PrintLine(t) ==
    /\ pr.thr[t].pc = "print"
    /\ \E raises \in BOOLEAN :
          pr' = SetThread(t, [pr.thr[t] EXCEPT !.pc = "exit",
                                               !.raised = raises])
    /\ UNCHANGED <<batch, xf>>

\* a release that is skipped when print raised (acquire and release without
\* the with statement)
ReleaseUnlessRaised(t) ==
    /\ pr.thr[t].pc = "exit"
    /\ pr' = [SetThread(t, [pr.thr[t] EXCEPT !.pc = "idle",
                                              !.left = @ - 1,
                                              !.raised = FALSE])
                 EXCEPT !.lock = IF pr.thr[t].raised THEN @ ELSE 0]
    /\ UNCHANGED <<batch, xf>>

\* print_lock.__exit__(): release, after a return and after an exception;
\* safe_print returns or lets the exception go on to its caller
Release(t) ==
    /\ pr.thr[t].pc = "exit"
    /\ pr' = [SetThread(t, [pr.thr[t] EXCEPT !.pc = "idle",
                                              !.left = @ - 1,
                                              !.raised = FALSE])
                 EXCEPT !.lock = 0]
    /\ UNCHANGED <<batch, xf>>

NextPrint ==
    \/ \E t \in Threads : SafePrintCall(t)
    \/ \E t \in Threads : Acquire(t)
    \/ \E t \in Threads : PrintLine(t)
    \/ \E t \in Threads : Release(t)

SpecPrint == InitPrint /\ [][NextPrint]_vars

\* print returns or raises, and the scheduler lets a thread that can run take
\* a step
FairSpecPrint == SpecPrint /\ WF_vars(NextPrint)

(* ------------------------------- claims -------------------------------- *)
\* the quality levels 95, 90, ..., 30
Levels ==
    { q \in FloorQuality .. StartQuality : (StartQuality - q) % QualityStep = 0 }

\* the call is between line 134 and its return: output_path is its target
Running(t) == t.pc \in {"loop", "afterloop"}

\* the loop was left without an exception in any pass and without a write:
\* every save returned a buffer larger than the ceiling
AllOversize(t) ==
    t.pc = "afterloop" /\ ~t.failed /\ t.produced /\ t.wrote = 0

Succeeded == { i \in Tasks : Outcome(task[i]) = "Success" }

\* C1: when every tried level gives an encode larger than the ceiling, the
\* floor-quality encode is written to the output path all the same, and a
\* call that reports Success has written encoded bytes to its output path.
C1_FloorEncodeWritten ==
    \A i \in Tasks :
       /\ AllOversize(task[i]) =>
             task[i].wrote > 0 /\ task[i].wroteQ = FloorQuality
       /\ "Warning" \in task[i].lines => Outcome(task[i]) = "Success"
       /\ Outcome(task[i]) = "Success" => task[i].wrote > 0

\* C2: without encoder errors the loop tries 95, 90, ... in this order and
\* stops at the first level whose encode fits, or else after it has tried
\* the floor level 30: the encode written is that of the highest fitting
\* level (one save when 95 fits), and level 30 is tried when none above fits.
C2_HighestFittingLevel ==
    \A i \in Tasks :
       (task[i].pc = "afterloop" /\ ~task[i].failed) =>
          /\ task[i].tries = (StartQuality - task[i].tryQ) \div QualityStep + 1
          /\ \/ /\ task[i].wrote > 0
                /\ Fits(task[i].wrote)
                /\ task[i].wroteQ = task[i].tryQ
             \/ task[i].tryQ = FloorQuality

\* C3: a call that reports Success has written at most the ceiling's number
\* of bytes, or its quality has come down to the floor and it has printed the
\* size warning; bytes above the ceiling are never written without it.
C3_SizeBoundOrWarning ==
    \A i \in Tasks :
       LET fitted == task[i].wrote > 0 /\ task[i].wrote <= Ceiling
       IN  /\ Outcome(task[i]) = "Success" =>
                 fitted \/ "Warning" \in task[i].lines
           /\ task[i].pc = "afterloop" =>
                 fitted \/ task[i].quality <= FloorQuality
           /\ task[i].wrote > Ceiling =>
                 \/ task[i].pc = "afterloop" /\ task[i].quality <= FloorQuality
                 \/ "Warning" \in task[i].lines

\* a call that wrote a file of exactly the ceiling's size and a call that
\* left the loop at the floor and printed the warning have both reported
\* Success
C3_Witness ==
    \E i, j \in Tasks :
       /\ Outcome(task[i]) = "Success" /\ task[i].wrote = Ceiling
       /\ Outcome(task[j]) = "Success" /\ "Warning" \in task[j].lines
       /\ task[j].wrote = 0

\* C4: every save attempted and every encode written uses a quality q with
\* 30 <= q <= 95 and 95 - q a multiple of 5, whatever the results were.
C4_QualityLevels ==
    \A i \in Tasks :
       /\ task[i].tries > 0 => task[i].tryQ \in Levels
       /\ (task[i].wrote > 0 /\ Running(task[i])) => task[i].wroteQ \in Levels
       /\ task[i].pc = "loop" => task[i].quality \in Levels

\* the lowest level has been tried after both oversize results and errors
C4_Witness ==
    \E i \in Tasks :
       /\ task[i].pc = "afterloop"
       /\ task[i].tryQ = FloorQuality + QualityStep
       /\ task[i].failed /\ task[i].produced /\ task[i].wrote = 0

\* C5: an encoder error is handled like an oversize result (quality goes
\* down by 5 and the save is retried), and a call whose every save raised,
\* so that no encode was ever produced, ends Failed and not Success.
C5_AllErrorsFail ==
    \A i \in Tasks :
       /\ (Running(task[i]) /\ task[i].tries > 0 /\ task[i].wrote = 0) =>
             task[i].quality = task[i].tryQ - QualityStep
       /\ (task[i].pc = "done" /\ ~task[i].produced) =>
             Outcome(task[i]) = "Failed"

\* C6: no exception leaves process_image; when process_images has finished,
\* every file of `files` has been processed to a terminal outcome: Failed for
\* the files whose call raised before the loop (missing file, both decode
\* paths failed, transform error), Success for all the others.
C6_FailureIsolation ==
    /\ \A i \in Tasks : task[i].pc # "raised"
    /\ dpc = "done" =>
          /\ submitted = Len(files)
          /\ \A i \in Tasks :
                /\ task[i].pc = "done"
                /\ task[i].file = files[i]
                /\ Outcome(task[i]) =
                      IF task[i].fault = "none" THEN "Success" ELSE "Failed"

\* the batch is over with one file Failed and another one Success
C6_Witness ==
    /\ dpc = "done"
    /\ \E i, j \in Tasks :
          /\ task[i].fault # "none" /\ Outcome(task[i]) = "Failed"
          /\ task[j].fault = "none" /\ Outcome(task[j]) = "Success"

\* C7: when INPUT_DIR does not exist or holds no matching file,
\* process_images returns having dispatched no task and having left the file
\* system as it was: it has not created OUTPUT_DIR.
C7_EarlyReturnNoWork ==
    dpc = "returned" =>
       /\ submitted = 0
       /\ ~madeOutDir
       /\ \A p \in OutPaths : out[p] = -1

\* C8: once the files are dispatched, every entry of INPUT_DIR whose extension
\* is 'heic' up to case has exactly one call, and every other entry has none.
C8_OneTaskPerHeicFile ==
    dpc \in {"join", "done"} =>
       \A f \in dir :
          Cardinality({ i \in Tasks : task[i].file = f }) =
             IF Lower(f.ext) = heic_lower THEN 1 ELSE 0

\* C9 as stated: no two running calls target the same output path.
C9_DistinctOutputPaths ==
    \A i, j \in Tasks :
       (i # j /\ Running(task[i]) /\ Running(task[j])) =>
          task[i].output_path # task[j].output_path

\* C9 as amended: two running calls target the same output path only when
\* their input files have the same stem; files with different stems never
\* share an output path, and no entry is dispatched twice.
C9_DistinctStemsDistinctPaths ==
    \A i, j \in Tasks :
       i # j =>
          /\ task[i].file # task[j].file
          /\ (Running(task[i]) /\ Running(task[j])
                /\ task[i].file.stem # task[j].file.stem) =>
                task[i].output_path # task[j].output_path

\* two calls on files with different stems are in the loop at the same time
C9_Witness ==
    \E i, j \in Tasks :
       /\ task[i].file.stem # task[j].file.stem
       /\ task[i].pc = "loop" /\ task[j].pc = "loop"
       /\ task[i].tries > 0 /\ task[j].tries > 0

\* C10: a batch that dispatched at least one file ends with a report line
\* '<succeeded>/<total>' whose counts are the number of calls that reported
\* Success and the number of files dispatched.
C10_AggregateReport ==
    (dpc = "done" /\ submitted > 0) =>
       \E k \in DOMAIN log :
          log[k].args = <<Cardinality(Succeeded), submitted>>

Abs(x) == IF x >= 0 THEN x ELSE 0 - x

\* C11: the image resize_image returns has max(width, height) <= MAX_SIDE;
\* when the input's larger side exceeds MAX_SIDE, that side comes out as
\* MAX_SIDE within 1 pixel and the other side as
\* floor(other * MAX_SIDE / larger) within 1 pixel.
C11_ResizeBound ==
    xf.stage # "off" /\ xf.once.kind = "image" =>
       LET w == xf.src[1]
           h == xf.src[2]
           a == xf.once.size[1]
           b == xf.once.size[2]
       IN  /\ Max(a, b) <= MAX_SIDE
           /\ (w >= h /\ w > MAX_SIDE) =>
                 /\ Abs(a - MAX_SIDE) <= 1
                 /\ Abs(b - (h * MAX_SIDE) \div w) <= 1
           /\ (h >= w /\ h > MAX_SIDE) =>
                 /\ Abs(b - MAX_SIDE) <= 1
                 /\ Abs(a - (w * MAX_SIDE) \div h) <= 1

\* a 4000 x 3000 image has been resized to 1900 x 1425
C11_Witness ==
    /\ xf.stage = "resized"
    /\ xf.src = <<4000, 3000>>
    /\ xf.once = [kind |-> "image", size |-> <<1900, 1425>>]

\* C12: resize_image returns an image with max(width, height) <= MAX_SIDE as
\* it is, and applied to its own result it returns an image of the same size.
C12_ResizeIdentityIdempotent ==
    xf.stage # "off" =>
       /\ (xf.once # NoResult /\ Max(xf.src[1], xf.src[2]) <= MAX_SIDE) =>
             xf.once = [kind |-> "image", size |-> xf.src]
       /\ xf.twice # NoResult => xf.twice = xf.once

\* resize_image has been applied twice to an image it had to shrink, and
\* once to an image whose larger side is exactly MAX_SIDE
C12_Witness ==
    /\ xf.stage # "off"
    /\ \/ /\ xf.twice # NoResult
          /\ Max(xf.src[1], xf.src[2]) > MAX_SIDE
          /\ xf.once.size # xf.src
       \/ /\ xf.twice # NoResult
          /\ Max(xf.src[1], xf.src[2]) = MAX_SIDE

\* C16: the adjustments run in the order sharpness, contrast, saturation;
\* when adjustment k raises, enhance_image returns the image of the last
\* adjustment that succeeded (its input when the first one raises); it never
\* raises itself, so the call of process_image goes on to the loop.
C16_EnhanceFallback ==
    (xf.stage # "off" /\ xf.input # NoResult) =>
       /\ xf.stage \in {"enhance", "returned"}
       /\ xf.image.size = xf.input.size
       /\ xf.image.enh = SubSeq(EnhanceSteps, 1, Len(xf.image.enh))
       /\ xf.stage = "enhance" => Len(xf.image.enh) = xf.step
       /\ xf.stage = "returned" =>
             /\ xf.result.size = xf.input.size
             /\ xf.result.enh =
                   SubSeq(EnhanceSteps, 1, IF xf.failAt = 0
                                           THEN Len(EnhanceSteps)
                                           ELSE xf.failAt - 1)

\* the contrast adjustment raised and the sharpened image was returned
C16_Witness ==
    /\ xf.stage = "returned"
    /\ xf.failAt = 2
    /\ xf.result.enh = <<"Sharpness">>

\* C19: for every input size with w, h >= 1, resize_image returns an image
\* whose width and height are both at least 1.
C19_ResizePositive ==
    (xf.stage # "off" /\ xf.once # NoResult) =>
       /\ xf.once.kind = "image"
       /\ xf.once.size[1] >= 1
       /\ xf.once.size[2] >= 1

\* C13: "Processing complete." is printed only when every dispatched call
\* has reported its outcome, Success or Error, and has returned: no outcome
\* is reported after the completion line.
C13_CompleteAfterOutcomes ==
    (\E k \in DOMAIN log : log[k].kind = "Complete") =>
       /\ submitted = Len(files)
       /\ \A i \in Tasks :
             /\ Outcome(task[i]) \in {"Success", "Failed"}
             /\ task[i].pc = "done"

\* the completion line has been printed after two calls reported, one of
\* them an Error
C13_Witness ==
    /\ \E k \in DOMAIN log : log[k].kind = "Complete"
    /\ submitted = 2
    /\ \E i \in Tasks : Outcome(task[i]) = "Failed"

\* C15: touch -r is run on an output path only after this call has written
\* its encoded bytes to that path.
C15_TouchAfterWrite ==
    \A i \in Tasks : task[i].touched => task[i].wrote > 0

\* C18: a call that ends Failed has neither written nor touched its output
\* path, and a file is on an output path only through a call that reached
\* the loop for that path.
C18_FailedLeavesNoOutput ==
    /\ \A i \in Tasks :
          Outcome(task[i]) = "Failed" =>
             task[i].wrote = 0 /\ ~task[i].touched
    /\ \A i \in Tasks :
          (task[i].wrote > 0 \/ task[i].touched) => task[i].fault = "none"
    /\ \A p \in OutPaths :
          out[p] # -1 =>
             \E i \in Tasks :
                /\ OutputPath(task[i].file) = p
                /\ Running(task[i]) \/ task[i].touched

\* one call has ended Failed and another one has written its output file
C18_Witness ==
    \E i, j \in Tasks :
       /\ Outcome(task[i]) = "Failed"
       /\ out[OutputPath(task[i].file)] = -1
       /\ task[j].pc = "done" /\ task[j].wrote > 0

Inside == { t \in Threads : pr.thr[t].pc \in {"print", "exit"} }

\* C17: at most one thread is inside the print of safe_print at a time; the
\* lock is released after every print, also when the print raised; and no
\* thread waits for print_lock for ever.
C17_PrintSerialized ==
    /\ [](/\ Cardinality(Inside) <= 1
          /\ \A t \in Threads : t \in Inside <=> pr.lock = t
          /\ Inside = {} <=> pr.lock = 0)
    /\ \A t \in Threads :
          (pr.thr[t].pc = "acquire") ~> (pr.thr[t].pc = "print")
    /\ <>[](pr.lock = 0 /\ \A t \in Threads : pr.thr[t].left = 0)

\* a thread waits for the lock while another one is leaving a print that
\* raised
C17_Witness ==
    /\ pr.stage = "on"
    /\ \E t, u \in Threads :
          /\ pr.thr[t].pc = "acquire"
          /\ pr.thr[u].pc = "exit" /\ pr.thr[u].raised

====
